---- MODULE Spec2Model ----
(***************************************************************************)
(* ASCII-Artify/main.py: the image-to-ASCII pipeline.                      *)
(*                                                                         *)
(*   Spec        the whole run of main(): argparse validation, the try     *)
(*               block (open, resize, row assembly), the exception         *)
(*               handlers and the print loop.                              *)
(*   SpecMapper  pixel_to_char called on one intensity and one ramp.       *)
(*   SpecResize  resize_to_width_grayscale called on one image and width.  *)
(*   SpecLines   pixels_to_ascii_lines consumed to exhaustion.             *)
(*                                                                         *)
(* A ramp is a sequence of one-character strings, the --width token a      *)
(* sequence of code points.  A raised exception is                         *)
(* the field "raised" of a call's result ("None" when the call returns).   *)
(***************************************************************************)
EXTENDS Integers, Sequences, FiniteSets, TLC

VARIABLES
    pc,         \* position of the run / of the call under test
    argv,       \* command line: [width (code points), char, invert, stretch]
    file,       \* what args.path names: [kind, w, h, orientation]
    args,       \* argparse namespace after parse_args()
    charset,    \* main's charset (line 86) / the ramp passed to a call
    gray,       \* the resized grayscale image: [width, height, px]
    gen,        \* the generator pixels_to_ascii_lines: [px, width, row_start]
    lines,      \* rows collected from the generator
    stdout,     \* lines printed so far
    line_no,    \* 1-based position of the print loop in lines
    copy,       \* which print of the loop body comes next (1 or 2)
    exc,        \* the exception raised, "None" if none
    exitcode,   \* process exit status, -1 while running
    value,      \* the intensity passed to pixel_to_char (SpecMapper)
    ret         \* the result of the call under test

vars == <<pc, argv, file, args, charset, gray, gen, lines, stdout, line_no,
          copy, exc, exitcode, value, ret>>

----------------------------------------------------------------------------
(* Bounds of the model *)

\* intensities are drawn from -Slack .. 255 + Slack
Slack == 3
\* generated ramps: every sequence over two glyphs up to this length
MaxRampLen == 3
\* SpecResize: image sides are drawn from 0 .. MaxSide
MaxSide == 22
\* SpecResize: target widths are drawn from -1 .. MaxTarget
MaxTarget == 17
\* SpecLines: pixel sequences up to this length, row widths up to MaxRowWidth
MaxPixels == 5
MaxRowWidth == 3
\* Spec: image sides 0 .. MaxImageSide, frames of at most MaxFrame pixels
MaxImageSide == 2
MaxFrame == 4

----------------------------------------------------------------------------
(* Python built-ins used by the script *)

MaxIntensity == 255

DefaultRamp == <<".", ":", "-", "=", "+", "*", "#", "%", "@">>

Min(a, b) == IF a < b THEN a ELSE b
Max(a, b) == IF a > b THEN a ELSE b

\* seq[i] for a Python index i (0-based, negative counts from the end)
PyIndex(seq, i) ==
    IF 0 <= i /\ i < Len(seq) THEN [raised |-> "None", item |-> seq[i + 1]]
    ELSE IF -Len(seq) <= i /\ i < 0
         THEN [raised |-> "None", item |-> seq[Len(seq) + i + 1]]
    ELSE [raised |-> "IndexError", item |-> ""]

\* a slice bound as Python reads it: negative counts from the end, then
\* clamped to 0 .. len(seq)
SliceBound(seq, i) ==
    IF i < 0 THEN Max(0, Len(seq) + i) ELSE Min(i, Len(seq))

\* seq[start:stop]
PySlice(seq, start, stop) ==
    SubSeq(seq, SliceBound(seq, start) + 1, SliceBound(seq, stop))

\* seq[::-1]: walk from the last item down to the first
RECURSIVE PyReversed(_)
PyReversed(seq) ==
    IF seq = <<>> THEN <<>>
    ELSE <<seq[Len(seq)]>> \o PyReversed(SubSeq(seq, 1, Len(seq) - 1))

(* A command-line token is a sequence of Unicode code points. *)

\* the code points of the digit zero of every decimal digit script (Unicode
\* category Nd); the nine code points after each are its digits 1..9
DigitZeros ==
    {48, 1632, 1776, 1984, 2406, 2534, 2662, 2790, 2918, 3046, 3174, 3302,
     3430, 3558, 3664, 3792, 3872, 4160, 4240, 6112, 6160, 6470, 6608,
     6784, 6800, 6992, 7088, 7232, 7248, 42528, 43216, 43264, 43472, 43504,
     43600, 44016, 65296, 66720, 68912, 69734, 69872, 69942, 70096, 70384,
     70736, 70864, 71248, 71360, 71472, 71904, 72016, 72784, 73040, 73120,
     92768, 92864, 93008, 120782, 120792, 120802, 120812, 120822, 123200,
     123632, 125264, 130032}

IsDigit(c) ==
    (48 <= c /\ c <= 57) \/ \E z \in DigitZeros : z <= c /\ c <= z + 9

DigitValue(c) == c - (CHOOSE z \in DigitZeros : z <= c /\ c <= z + 9)

\* the number written by digits m..n of s
RECURSIVE DecimalPart(_, _, _)
DecimalPart(s, m, n) ==
    IF n < m THEN 0 ELSE 10 * DecimalPart(s, m, n - 1) + DigitValue(s[n])

\* the number written by the digits of s; leading zeros add nothing
DecimalValue(s) ==
    LET n       == Len(s)
        nonzero == \E i \in 1..n : DigitValue(s[i]) # 0
        first   == CHOOSE i \in 1..n :
                       /\ DigitValue(s[i]) # 0
                       /\ \A j \in 1..(i - 1) : DigitValue(s[j]) = 0
    IN  IF nonzero THEN DecimalPart(s, first, n) ELSE 0

\* sys.get_int_max_str_digits(): int() refuses a str of more digits
MaxStrDigits == 4300

\* the code points int() strips from both ends: tab, line feed, vertical
\* tab, form feed, carriage return, space, NEL, no-break space and the
\* Unicode space separators
Whitespace ==
    {9, 10, 11, 12, 13, 32, 133, 160, 5760, 8192, 8193, 8194, 8195, 8196,
     8197, 8198, 8199, 8200, 8201, 8202, 8232, 8233, 8239, 8287, 12288}

\* x.strip() as int() applies it
PyStrip(x) ==
    LET n     == Len(x)
        inked == \E i \in 1..n : x[i] \notin Whitespace
        first == CHOOSE i \in 1..n :
                     /\ x[i] \notin Whitespace
                     /\ \A j \in 1..(i - 1) : x[j] \in Whitespace
        last  == CHOOSE i \in 1..n :
                     /\ x[i] \notin Whitespace
                     /\ \A j \in (i + 1)..n : x[j] \in Whitespace
    IN  IF inked THEN SubSeq(x, first, last) ELSE <<>>

\* int(x) for a str: surrounding whitespace is stripped, a sign (43 '+',
\* 45 '-') may lead, and the decimal digits, of any script, may be separated
\* by single underscores (95); anything else is a ValueError, and so is a
\* str of more than MaxStrDigits digits (sign, underscores and whitespace
\* not counted).  The value is exact below 2^31.
PyInt(x) ==
    LET y      == PyStrip(x)
        signed == y # <<>> /\ y[1] \in {43, 45}
        body   == IF signed THEN Tail(y) ELSE y
        wellformed ==
            /\ body # <<>>
            /\ \A i \in 1..Len(body) :
                   \/ IsDigit(body[i])
                   \/ /\ body[i] = 95
                      /\ 1 < i /\ i < Len(body)
                      /\ IsDigit(body[i - 1])
                      /\ IsDigit(body[i + 1])
        digits    == SelectSeq(body, IsDigit)
        magnitude == DecimalValue(digits)
    IN  IF wellformed /\ Len(digits) <= MaxStrDigits
        THEN [raised |-> "None",
              v |-> IF signed /\ y[1] = 45 THEN -magnitude ELSE magnitude]
        ELSE [raised |-> "ValueError", v |-> 0]

----------------------------------------------------------------------------
(* IEEE-754 binary64 arithmetic of lines 44-45.                            *)
(* A float is [e, m]: m = <<t, d1, d2, d3, d4>> are base-2^13 digits with  *)
(* the point after t, and the value is m * 2^e.  A normalised float has    *)
(* t = 1, which makes 1 + 4 * 13 = 53 significant bits.  The operators     *)
(* are exact for sides and widths in 1 .. 2^17 - 1 whose rounded product   *)
(* is below 2^30; beyond that the integers of the checker overflow.        *)

Base == 2^13

RECURSIVE Normalize(_, _, _)
Normalize(n, d, e) ==
    IF n < d THEN Normalize(2 * n, d, e - 1)
    ELSE IF n >= 2 * d THEN Normalize(n, 2 * d, e + 1)
    ELSE <<n, d, e>>

\* add inc units of digit pos, carrying towards t
RECURSIVE AddUlp(_, _, _)
AddUlp(m, pos, inc) ==
    IF inc = 0 THEN m
    ELSE IF pos = 1 THEN [m EXCEPT ![1] = m[1] + inc]
    ELSE LET s == m[pos] + inc
         IN  AddUlp([m EXCEPT ![pos] = s % Base], pos - 1, s \div Base)

RECURSIVE BitLen(_)
BitLen(n) == IF n < 2 THEN 1 ELSE 1 + BitLen(n \div 2)

\* the digit that holds bit k of the 52 bits after the point (k counted from
\* the least significant bit), t holding every bit from 52 up
UnitDigit(k) == Max(1, 5 - (k \div 13))

\* the position of bit k inside its digit
UnitBit(k) == k - 13 * (5 - UnitDigit(k))

\* m with its k low bits rounded away, round-half-even: a multiple of 2^k
RoundToUnit(m, k) ==
    IF k <= 0 THEN m
    ELSE LET u     == UnitDigit(k)
             ub    == UnitBit(k)
             lowU  == m[u] % (2^ub)
             \* the half bit is bit ub-1 of digit u, or the top bit of digit u+1
             hd    == IF ub > 0 THEN lowU ELSE m[u + 1]
             hb    == IF ub > 0 THEN 2^(ub - 1) ELSE Base \div 2
             from  == IF ub > 0 THEN u + 1 ELSE u + 2
             below == {i \in from..5 : m[i] # 0}
             above == hd > hb \/ (hd = hb /\ below # {})
             tie   == hd = hb /\ below = {}
             odd   == (m[u] \div (2^ub)) % 2 = 1
             kept  == [i \in 1..5 |-> IF i < u THEN m[i]
                                      ELSE IF i = u THEN m[u] - lowU ELSE 0]
         IN  AddUlp(kept, u, IF above \/ (tie /\ odd) THEN 2^ub ELSE 0)

\* a / float(b), correctly rounded (round-half-even) to 53 bits
float_div(a, b) ==
    LET nd == Normalize(a, b, 0)
        d  == nd[2]
        r0 == nd[1] - d
        d1 == (r0 * Base) \div d
        r1 == (r0 * Base) % d
        d2 == (r1 * Base) \div d
        r2 == (r1 * Base) % d
        d3 == (r2 * Base) \div d
        r3 == (r2 * Base) % d
        d4 == (r3 * Base) \div d
        r4 == (r3 * Base) % d
        up == (2 * r4 > d) \/ (2 * r4 = d /\ d4 % 2 = 1)
    IN  [e |-> nd[3],
         m |-> AddUlp(<<1, d1, d2, d3, d4>>, 5, IF up THEN 1 ELSE 0)]

\* h * f for an int h >= 0, correctly rounded (round-half-even) to 53 bits
float_mul(h, f) ==
    LET m  == f.m
        x4 == h * m[5]
        x3 == h * m[4] + x4 \div Base
        x2 == h * m[3] + x3 \div Base
        x1 == h * m[2] + x2 \div Base
        t  == h * m[1] + x1 \div Base
        p  == <<t, x1 % Base, x2 % Base, x3 % Base, x4 % Base>>
    IN  [e |-> f.e, m |-> RoundToUnit(p, BitLen(t) - 1)]

\* the integer m * 2^e for an m that is a multiple of 2^(52 - e)
RECURSIVE Horner(_, _)
Horner(m, n) == IF n = 0 THEN 0 ELSE Horner(m, n - 1) * Base + m[n]

\* int(round(f)): Python rounds a float half-to-even, exactly
py_round(f) ==
    LET k  == 52 - f.e
        r  == RoundToUnit(f.m, k)
        u  == UnitDigit(k)
        ub == UnitBit(k)
    IN  IF u = 1 THEN r[1] \div (2^ub)
        ELSE Horner(r, u - 1) * 2^(13 - ub) + r[u] \div (2^ub)

----------------------------------------------------------------------------
(* Validators for argparse (lines 22-34) *)

positive_int(x) ==
    LET r == PyInt(x)
    IN  IF r.raised = "ValueError"
        THEN [raised |-> "ArgumentTypeError", msg |-> "must be an integer", v |-> 0]
        ELSE IF r.v <= 0
        THEN [raised |-> "ArgumentTypeError", msg |-> "must be > 0", v |-> 0]
        ELSE [raised |-> "None", msg |-> "", v |-> r.v]

char_string(s) ==
    IF s = <<>>
    THEN [raised |-> "ArgumentTypeError",
          msg |-> "char set must be a non-empty string", v |-> <<>>]
    ELSE [raised |-> "None", msg |-> "", v |-> s]

----------------------------------------------------------------------------
(* Step 1: resize & grayscale (lines 38-47) *)

\* ImageOps.exif_transpose: orientations 5..8 exchange the two sides
exif_transpose(img) ==
    IF img.orientation \in 5..8
    THEN [img EXCEPT !.w = img.h, !.h = img.w, !.orientation = 1]
    ELSE [img EXCEPT !.orientation = 1]

\* Image.resize((xsize, ysize)): Pillow refuses a side below 1
image_resize(xsize, ysize) ==
    IF xsize < 1 \/ ysize < 1
    THEN [raised |-> "ValueError", width |-> 0, height |-> 0]
    ELSE [raised |-> "None", width |-> xsize, height |-> ysize]

\* max(1, int(round(h * scale))) with scale = target_width / float(w).
\* For target_width <= 0 the product is <= 0, and so is its rounding.
target_height(w, h, target_width) ==
    IF target_width <= 0 THEN 1
    ELSE Max(1, py_round(float_mul(h, float_div(target_width, w))))

\* variant: the dimension check of line 42 tests the width only
resize_unchecked_height(img, target_width) ==
    LET t == exif_transpose(img)
    IN  IF t.w <= 0
        THEN [raised |-> "ValueError", width |-> 0, height |-> 0]
        ELSE image_resize(target_width, target_height(t.w, t.h, target_width))

resize_to_width_grayscale(img, target_width) ==
    LET t == exif_transpose(img)
    IN  IF t.w <= 0 \/ t.h <= 0
        THEN [raised |-> "ValueError", width |-> 0, height |-> 0]
        ELSE image_resize(target_width, target_height(t.w, t.h, target_width))

----------------------------------------------------------------------------
(* Step 2: pixel -> character mapping (lines 51-70) *)

\* variant: last = len(charset)
pixel_to_char_last_is_len(val, ramp) ==
    IF ramp = <<>>
    THEN [raised |-> "ValueError", idx |-> 0, ch |-> ""]
    ELSE LET v    == IF val < 0 THEN 0
                     ELSE IF val > MaxIntensity THEN MaxIntensity ELSE val
             last == Len(ramp)
             idx  == last - ((v * last) \div MaxIntensity)
             got  == PyIndex(ramp, idx)
         IN  [raised |-> got.raised, idx |-> idx, ch |-> got.item]

\* variant: idx = v * last // 255, the ramp read darkest-last
pixel_to_char_ascending(val, ramp) ==
    IF ramp = <<>>
    THEN [raised |-> "ValueError", idx |-> 0, ch |-> ""]
    ELSE LET v    == IF val < 0 THEN 0
                     ELSE IF val > MaxIntensity THEN MaxIntensity ELSE val
             last == Len(ramp) - 1
             idx  == (v * last) \div MaxIntensity
             got  == PyIndex(ramp, idx)
         IN  [raised |-> got.raised, idx |-> idx, ch |-> got.item]

\* variant: idx = last - round(v * last / 255)
pixel_to_char_rounding(val, ramp) ==
    IF ramp = <<>>
    THEN [raised |-> "ValueError", idx |-> 0, ch |-> ""]
    ELSE LET v    == IF val < 0 THEN 0
                     ELSE IF val > MaxIntensity THEN MaxIntensity ELSE val
             last == Len(ramp) - 1
             idx  == last - ((2 * v * last + MaxIntensity) \div (2 * MaxIntensity))
             got  == PyIndex(ramp, idx)
         IN  [raised |-> got.raised, idx |-> idx, ch |-> got.item]

\* variant: the emptiness check of lines 57-58 is missing
pixel_to_char_unchecked(val, ramp) ==
    LET v    == IF val < 0 THEN 0
                ELSE IF val > MaxIntensity THEN MaxIntensity ELSE val
        last == Len(ramp) - 1
        idx  == last - ((v * last) \div MaxIntensity)
        got  == PyIndex(ramp, idx)
    IN  [raised |-> got.raised, idx |-> idx, ch |-> got.item]

pixel_to_char(val, ramp) ==
    IF ramp = <<>>
    THEN [raised |-> "ValueError", idx |-> 0, ch |-> ""]
    ELSE LET v    == IF val < 0 THEN 0
                     ELSE IF val > MaxIntensity THEN MaxIntensity ELSE val
             last == Len(ramp) - 1
             idx  == last - ((v * last) \div MaxIntensity)
             got  == PyIndex(ramp, idx)
         IN  [raised |-> got.raised, idx |-> idx, ch |-> got.item]

\* variant: px[row_start:row_start + width - 1]
row_slice_short(px, row_start, width) == PySlice(px, row_start, row_start + width - 1)

\* px[row_start:row_start + width]
row_slice(px, row_start, width) == PySlice(px, row_start, row_start + width)

\* "".join(pixel_to_char(p, charset) for p in row): the first failing pixel
\* raises, otherwise the glyphs in order
join_row(row, ramp) ==
    LET mapped == [i \in 1..Len(row) |-> pixel_to_char(row[i], ramp)]
        failed == {i \in 1..Len(row) : mapped[i].raised # "None"}
    IN  IF failed # {}
        THEN [raised |-> mapped[CHOOSE i \in failed : \A j \in failed : i <= j].raised,
              line |-> <<>>]
        ELSE [raised |-> "None", line |-> [i \in 1..Len(row) |-> mapped[i].ch]]

----------------------------------------------------------------------------
(* main (lines 73-108) *)

\* variant: --invert is ignored
select_charset_ignoring_invert(char, invert) == char

\* line 86
select_charset(char, invert) == IF invert THEN PyReversed(char) ELSE char

\* variant: "except Exception" placed first catches everything
exit_status_generic_first(e) == 3

\* the except clauses of lines 92-100, in order
exit_status(e) ==
    IF e = "FileNotFoundError" THEN 1
    ELSE IF e = "UnidentifiedImageError" THEN 2
    ELSE 3

\* variant: the stretch branch prints each line once
next_print_single(n, c, stretch) == <<n + 1, 1>>

\* lines 102-108: where the print loop stands after one print()
next_print(n, c, stretch) ==
    IF stretch /\ c = 1 THEN <<n, 2>> ELSE <<n + 1, 1>>

NoArgs  == [width |-> 0, char |-> <<>>, invert |-> FALSE, stretch |-> FALSE]
NoImage == [width |-> 0, height |-> 0, px |-> <<>>]
NoGen   == [px |-> <<>>, width |-> 0, row_start |-> 0]
NoFile  == [kind |-> "none", w |-> 0, h |-> 0, orientation |-> 1]
NoRet   == [raised |-> "unset"]

PixelValues == {0, 128, MaxIntensity}

\* parser.parse_args(): argparse turns an ArgumentTypeError into exit status 2
ParseArgs ==
    /\ pc = "parse"
    /\ LET w == positive_int(argv.width)
           c == char_string(argv.char)
       IN  IF w.raised # "None" \/ c.raised # "None"
           THEN /\ exc' = "ArgumentTypeError"
                /\ exitcode' = 2
                /\ pc' = "exit"
                /\ UNCHANGED <<args, charset>>
           ELSE /\ args' = [width |-> w.v, char |-> c.v,
                            invert |-> argv.invert, stretch |-> argv.stretch]
                /\ charset' = select_charset(c.v, argv.invert)
                /\ pc' = "open"
                /\ UNCHANGED <<exc, exitcode>>
    /\ UNCHANGED <<argv, file, gray, gen, lines, stdout, line_no, copy, value, ret>>

\* line 89: Image.open(args.path)
Open ==
    /\ pc = "open"
    /\ IF file.kind = "missing"
       THEN exc' = "FileNotFoundError" /\ pc' = "except"
       ELSE IF file.kind = "notimage"
       THEN exc' = "UnidentifiedImageError" /\ pc' = "except"
       ELSE exc' = exc /\ pc' = "resize"
    /\ UNCHANGED <<argv, file, args, charset, gray, gen, lines, stdout, line_no,
                   copy, exitcode, value, ret>>

\* line 90; a truncated file fails to decode when its pixels are loaded, and
\* the resampled pixel values are whatever the filter produces
Resize ==
    /\ pc = "resize"
    /\ LET r == resize_to_width_grayscale(file, args.width)
       IN  IF file.kind = "truncated"
           THEN exc' = "OSError" /\ pc' = "except" /\ gray' = gray
           ELSE IF r.raised # "None"
           THEN exc' = r.raised /\ pc' = "except" /\ gray' = gray
           ELSE /\ \E px \in [1..(r.width * r.height) -> PixelValues] :
                      gray' = [width |-> r.width, height |-> r.height, px |-> px]
                /\ pc' = "lines"
                /\ exc' = exc
    /\ UNCHANGED <<argv, file, args, charset, gen, lines, stdout, line_no, copy,
                   exitcode, value, ret>>

\* line 91: the call creates the generator; line 67 copies the pixels
CallLines ==
    /\ pc = "lines"
    /\ gen' = [px |-> gray.px, width |-> gray.width, row_start |-> 0]
    /\ lines' = <<>>
    /\ pc' = "rows"
    /\ UNCHANGED <<argv, file, args, charset, gray, stdout, line_no, copy, exc,
                   exitcode, value, ret>>

\* range(0, len(px), width) has a value at row_start: a step below 1 gives
\* an empty range (a step of 0 is refused when the range is built)
RangeHasNext(g) == g.width > 0 /\ g.row_start < Len(g.px)

\* lines 68-70: one iteration of the generator's loop, collected by list();
\* range() raises ValueError for a step of 0
NextRow ==
    /\ pc = "rows"
    /\ gen.width = 0 \/ RangeHasNext(gen)
    /\ LET r == join_row(row_slice(gen.px, gen.row_start, gen.width), charset)
       IN  IF gen.width = 0
           THEN exc' = "ValueError" /\ pc' = "except" /\ UNCHANGED <<gen, lines>>
           ELSE IF r.raised # "None"
           THEN exc' = r.raised /\ pc' = "except" /\ UNCHANGED <<gen, lines>>
           ELSE /\ lines' = Append(lines, r.line)
                /\ gen' = [gen EXCEPT !.row_start = gen.row_start + gen.width]
                /\ UNCHANGED <<exc, pc>>
    /\ UNCHANGED <<argv, file, args, charset, gray, stdout, line_no, copy,
                   exitcode, value, ret>>

\* the range of line 68 is exhausted: list() returns and the try block ends
EndRows ==
    /\ pc = "rows"
    /\ gen.width # 0
    /\ ~RangeHasNext(gen)
    /\ pc' = "print"
    /\ UNCHANGED <<argv, file, args, charset, gray, gen, lines, stdout, line_no,
                   copy, exc, exitcode, value, ret>>

\* lines 92-100
Handle ==
    /\ pc = "except"
    /\ exitcode' = exit_status(exc)
    /\ pc' = "exit"
    /\ UNCHANGED <<argv, file, args, charset, gray, gen, lines, stdout, line_no,
                   copy, exc, value, ret>>

\* lines 102-108: one print(line)
PrintLine ==
    /\ pc = "print"
    /\ line_no <= Len(lines)
    /\ stdout' = Append(stdout, lines[line_no])
    /\ line_no' = next_print(line_no, copy, args.stretch)[1]
    /\ copy' = next_print(line_no, copy, args.stretch)[2]
    /\ UNCHANGED <<pc, argv, file, args, charset, gray, gen, lines, exc,
                   exitcode, value, ret>>

\* the loop is over: main returns
Finish ==
    /\ pc = "print"
    /\ line_no > Len(lines)
    /\ pc' = "done"
    /\ exitcode' = 0
    /\ UNCHANGED <<argv, file, args, charset, gray, gen, lines, stdout, line_no,
                   copy, exc, value, ret>>

\* "1", "2", "3", "0", "-2", "x", "", " 2", "1_0", " -2", "_1",
\* "<VT>2", "2<NBSP>", "<ARABIC-INDIC TWO>", "<FS>2", and "00...01" of
\* MaxStrDigits + 1 digits
WidthTokens ==
    {<<49>>, <<50>>, <<51>>, <<48>>, <<45, 50>>, <<120>>, <<>>,
     <<32, 50>>, <<49, 95, 48>>, <<32, 45, 50>>, <<95, 49>>,
     <<11, 50>>, <<50, 160>>, <<1634>>, <<28, 50>>,
     [i \in 1..(MaxStrDigits + 1) |-> IF i <= MaxStrDigits THEN 48 ELSE 49]}

CharArgs ==
    {<<>>, <<"0", "1">>, <<"1", "0">>, DefaultRamp,
     <<"@", "%", "#", "*", "+", "=", "-", ":", ".">>}

Orientations == {1, 6}

Files ==
    {[kind |-> "missing", w |-> 0, h |-> 0, orientation |-> 1],
     [kind |-> "notimage", w |-> 0, h |-> 0, orientation |-> 1],
     [kind |-> "truncated", w |-> 1, h |-> 1, orientation |-> 1]}
    \cup [kind : {"image"}, w : 0..MaxImageSide, h : 0..MaxImageSide,
          orientation : Orientations]

\* the frame of this run, if it gets that far, has at most MaxFrame pixels
FrameFits(a, f) ==
    LET w == positive_int(a.width)
        r == resize_to_width_grayscale(f, w.v)
    IN  (w.raised = "None" /\ f.kind = "image" /\ r.raised = "None")
            => r.width * r.height <= MaxFrame

Init ==
    /\ pc = "parse"
    /\ argv \in [width : WidthTokens, char : CharArgs,
                 invert : BOOLEAN, stretch : BOOLEAN]
    /\ file \in Files
    /\ FrameFits(argv, file)
    /\ args = NoArgs
    /\ charset = <<>>
    /\ gray = NoImage
    /\ gen = NoGen
    /\ lines = <<>>
    /\ stdout = <<>>
    /\ line_no = 1
    /\ copy = 1
    /\ exc = "None"
    /\ exitcode = -1
    /\ value = 0
    /\ ret = NoRet

Next ==
    \/ ParseArgs
    \/ Open
    \/ Resize
    \/ CallLines
    \/ NextRow
    \/ EndRows
    \/ Handle
    \/ PrintLine
    \/ Finish

Spec == Init /\ [][Next]_vars

----------------------------------------------------------------------------
(* pixel_to_char alone: one call on one intensity and one ramp *)

HexRamp == <<"0", "1", "2", "3", "4", "5", "6", "7",
             "8", "9", "a", "b", "c", "d", "e", "f">>

Ramps ==
    {SubSeq(DefaultRamp, 1, n) : n \in 0..Len(DefaultRamp)}
    \cup {<<"0", "1">>, HexRamp}
    \cup UNION {[1..n -> {"a", "b"}] : n \in 1..MaxRampLen}

InitMapper ==
    /\ pc = "call"
    /\ value \in (0 - Slack)..(MaxIntensity + Slack)
    /\ charset \in Ramps
    /\ argv = [width |-> <<>>, char |-> <<>>, invert |-> FALSE, stretch |-> FALSE]
    /\ file = NoFile
    /\ args = NoArgs
    /\ gray = NoImage
    /\ gen = NoGen
    /\ lines = <<>>
    /\ stdout = <<>>
    /\ line_no = 1
    /\ copy = 1
    /\ exc = "None"
    /\ exitcode = -1
    /\ ret = NoRet

MapPixel ==
    /\ pc = "call"
    /\ ret' = pixel_to_char(value, charset)
    /\ pc' = "returned"
    /\ UNCHANGED <<argv, file, args, charset, gray, gen, lines, stdout, line_no,
                   copy, exc, exitcode, value>>

NextMapper == MapPixel

SpecMapper == InitMapper /\ [][NextMapper]_vars

----------------------------------------------------------------------------
(* resize_to_width_grayscale alone: one call on one image and one width *)

InitResize ==
    /\ pc = "call"
    /\ file \in [kind : {"image"}, w : 0..MaxSide, h : 0..MaxSide,
                 orientation : Orientations]
    /\ \E tw \in -1..MaxTarget : args = [NoArgs EXCEPT !.width = tw]
    /\ argv = [width |-> <<>>, char |-> <<>>, invert |-> FALSE, stretch |-> FALSE]
    /\ charset = <<>>
    /\ gray = NoImage
    /\ gen = NoGen
    /\ lines = <<>>
    /\ stdout = <<>>
    /\ line_no = 1
    /\ copy = 1
    /\ exc = "None"
    /\ exitcode = -1
    /\ value = 0
    /\ ret = NoRet

ResizeCall ==
    /\ pc = "call"
    /\ ret' = resize_to_width_grayscale(file, args.width)
    /\ pc' = "returned"
    /\ UNCHANGED <<argv, file, args, charset, gray, gen, lines, stdout, line_no,
                   copy, exc, exitcode, value>>

NextResize == ResizeCall

SpecResize == InitResize /\ [][NextResize]_vars

----------------------------------------------------------------------------
(* pixels_to_ascii_lines alone: the generator consumed to exhaustion *)

InitLines ==
    /\ pc = "rows"
    /\ \E n \in 0..MaxPixels, w \in -1..MaxRowWidth :
           \E px \in [1..n -> PixelValues] :
               gen = [px |-> px, width |-> w, row_start |-> 0]
    /\ charset \in CharArgs
    /\ argv = [width |-> <<>>, char |-> <<>>, invert |-> FALSE, stretch |-> FALSE]
    /\ file = NoFile
    /\ args = NoArgs
    /\ gray = NoImage
    /\ lines = <<>>
    /\ stdout = <<>>
    /\ line_no = 1
    /\ copy = 1
    /\ exc = "None"
    /\ exitcode = -1
    /\ value = 0
    /\ ret = NoRet

NextLines == NextRow \/ EndRows

SpecLines == InitLines /\ [][NextLines]_vars

----------------------------------------------------------------------------
(* Properties *)

Clamp(v) == IF v < 0 THEN 0 ELSE IF v > MaxIntensity THEN MaxIntensity ELSE v

\* C1: for every intensity 0..255 and every non-empty ramp of length N the
\* selected index lies in 0..N-1 and the glyph is the ramp's glyph at that
\* index; intensity 255 selects ramp[0] and intensity 0 selects ramp[N-1].
C1_IndexInRange ==
    (pc = "returned" /\ value \in 0..MaxIntensity /\ charset # <<>>) =>
        /\ ret.raised = "None"
        /\ ret.idx \in 0..(Len(charset) - 1)
        /\ ret.ch = charset[ret.idx + 1]
        /\ value = MaxIntensity => (ret.idx = 0 /\ ret.ch = charset[1])
        /\ value = 0 => (ret.idx = Len(charset) - 1 /\ ret.ch = charset[Len(charset)])

C1_Witness ==
    /\ pc = "returned"
    /\ value = 0
    /\ charset = DefaultRamp
    /\ ret.idx = 8
    /\ ret.ch = "@"

\* C2: for every non-empty ramp and intensities a <= b in 0..255, the index
\* selected for b is at most the index selected for a.
C2_Monotonic ==
    (pc = "returned" /\ value \in 0..MaxIntensity /\ charset # <<>>) =>
        \A b \in value..MaxIntensity : pixel_to_char(b, charset).idx <= ret.idx

C2_Witness ==
    /\ pc = "returned"
    /\ value = 100
    /\ charset = HexRamp
    /\ ret.idx = 10
    /\ pixel_to_char(101, charset).idx = 10
    /\ pixel_to_char(102, charset).idx = 9

\* C3: for every integer value and non-empty ramp the glyph returned is
\* ramp[last - q], where c is the value clamped to 0..255 and q is the
\* truncated quotient of c * last by 255 (q * 255 <= c * last < (q+1) * 255);
\* with ramp "01", intensity 128 gives '1'.
C3_TruncatedQuotient ==
    (pc = "returned" /\ charset # <<>>) =>
        LET last == Len(charset) - 1
            c    == Clamp(value)
        IN  /\ ret.raised = "None"
            /\ \E q \in 0..last :
                   /\ q * MaxIntensity <= c * last
                   /\ c * last < (q + 1) * MaxIntensity
                   /\ ret.idx = last - q
                   /\ ret.ch = charset[last - q + 1]
            /\ (charset = <<"0", "1">> /\ value = 128) => ret.ch = "1"

C3_Witness ==
    /\ pc = "returned"
    /\ charset = <<"0", "1">>
    /\ value = 128
    /\ ret.idx = 1
    /\ ret.ch = "1"

\* C9: on an empty ramp the mapper raises ValueError for every intensity
\* (never a glyph, never an IndexError); on a non-empty ramp it returns one
\* glyph of the ramp.
C9_EmptyRampRaises ==
    pc = "returned" =>
        /\ charset = <<>> => ret.raised = "ValueError"
        /\ charset # <<>> =>
               (ret.raised = "None" /\ \E i \in 1..Len(charset) : ret.ch = charset[i])

C9_Witness ==
    /\ pc = "returned"
    /\ charset = <<>>
    /\ value = 200
    /\ ret.raised = "ValueError"

----------------------------------------------------------------------------

\* n / d rounded to the nearest integer, a tie going to the even neighbour
RoundHalfEven(n, d) ==
    LET q == n \div d
        r == n % d
    IN  IF 2 * r > d \/ (2 * r = d /\ q % 2 = 1) THEN q + 1 ELSE q

\* n / d rounded to the nearest integer, a tie going away from zero
RoundHalfAway(n, d) ==
    LET q == n \div d
        r == n % d
    IN  IF 2 * r >= d THEN q + 1 ELSE q

\* C4: for an image of W0 x H0 (orientation applied, both >= 1) and target
\* width W >= 1 the result is W wide and max(1, round(H0 * W / W0)) high,
\* round being rounding to the nearest integer under either tie rule.
C4_HeightIsRoundedRatio ==
    LET t == exif_transpose(file)
        W == args.width
    IN  (pc = "returned" /\ t.w >= 1 /\ t.h >= 1 /\ W >= 1) =>
            /\ ret.raised = "None"
            /\ ret.width = W
            /\ \/ ret.height = Max(1, RoundHalfEven(t.h * W, t.w))
               \/ ret.height = Max(1, RoundHalfAway(t.h * W, t.w))

----------------------------------------------------------------------------

\* C5: for W >= 1, H >= 1 and W * H pixels the generator yields exactly H
\* lines of length W, and character c of line r is the glyph of pixel
\* r * W + c (0-based): row-major, nothing dropped, repeated or reordered.
C5_RowMajorFrame ==
    LET W == gen.width
        n == Len(gen.px)
    IN  (pc = "print" /\ charset # <<>> /\ W >= 1 /\ n >= 1 /\ n % W = 0) =>
            /\ Len(lines) = n \div W
            /\ \A r \in 1..(n \div W) :
                   /\ Len(lines[r]) = W
                   /\ \A c \in 1..W :
                          lines[r][c] = pixel_to_char(gen.px[(r - 1) * W + c], charset).ch

C5_Witness ==
    /\ pc = "print"
    /\ gen.width = 2
    /\ gen.px = <<0, 255, 128, 0>>
    /\ charset = DefaultRamp
    /\ lines = << <<"@", ".">>, <<"+", "@">> >>

----------------------------------------------------------------------------

Reverse(R) == [i \in 1..Len(R) |-> R[Len(R) + 1 - i]]

\* the frame of px in rows of W, mapped against ramp R
Frame(px, W, R) ==
    [r \in 1..(Len(px) \div W) |->
        [c \in 1..W |-> pixel_to_char(px[(r - 1) * W + c], R).ch]]

\* C6: a run with --invert on ramp R produces the lines of the plain mapping
\* against reverse(R) (a run without --invert those against R itself);
\* --invert on ".:-=+*#%@" maps against "@%#*+=-:.".
C6_InvertIsReversedRamp ==
    /\ pc \in {"print", "done"} =>
           lines = Frame(gray.px, gray.width,
                         IF argv.invert THEN Reverse(argv.char) ELSE argv.char)
    /\ (pc \notin {"parse", "exit"} /\ argv.invert /\ argv.char = DefaultRamp) =>
           charset = <<"@", "%", "#", "*", "+", "=", "-", ":", ".">>

C6_Witness ==
    /\ pc = "done"
    /\ argv.invert
    /\ argv.char = DefaultRamp
    /\ gray.px = <<0, 255>>
    /\ gray.width = 2
    /\ lines = << <<".", "@">> >>

\* C7: with --stretch a frame of L lines is printed as 2 * L lines, output
\* lines 2k and 2k+1 (0-based) both being frame line k; without it the L
\* frame lines are printed once, in order.
C7_StretchDoublesLines ==
    /\ pc = "done" =>
           IF args.stretch
           THEN /\ Len(stdout) = 2 * Len(lines)
                /\ \A k \in 1..Len(lines) :
                       stdout[2 * k - 1] = lines[k] /\ stdout[2 * k] = lines[k]
           ELSE stdout = lines
    /\ pc = "print" =>
           \A j \in 1..Len(stdout) :
               stdout[j] = lines[IF args.stretch THEN (j + 1) \div 2 ELSE j]

C7_Witness ==
    /\ pc = "done"
    /\ args.stretch
    /\ Len(lines) = 2
    /\ lines[1] # lines[2]
    /\ stdout = <<lines[1], lines[1], lines[2], lines[2]>>

\* C8: a run in which a step failed has printed no line and prints none: it
\* ends in the exit status of its failure (1 file not found, 2 not an image
\* or a usage error, 3 anything else); a line is printed only once the whole
\* frame is assembled, and a run that returns has printed the whole frame.
C8_AllOrNothing ==
    /\ exc # "None" => (stdout = <<>> /\ pc \in {"except", "exit"})
    /\ pc = "exit" =>
           /\ exc # "None"
           /\ exitcode = CASE exc = "FileNotFoundError" -> 1
                           [] exc = "UnidentifiedImageError" -> 2
                           [] exc = "ArgumentTypeError" -> 2
                           [] OTHER -> 3
           /\ ~ENABLED Next
    /\ stdout # <<>> =>
           (exc = "None" /\ pc \in {"print", "done"} /\ Len(lines) = gray.height)
    /\ pc = "done" =>
           /\ exc = "None"
           /\ Len(stdout) = (IF args.stretch THEN 2 ELSE 1) * gray.height

C8_Witness ==
    /\ pc = "exit"
    /\ exc = "UnidentifiedImageError"
    /\ exitcode = 2
    /\ stdout = <<>>
    /\ lines = <<>>

====
